---- MODULE Spec2Model ----
(***************************************************************************)
(* Model of src/pa3.c: the TLB (lookup_tlb, insert_tlb), the frame         *)
(* allocator and two-level page table (alloc_page, free_page), the fault   *)
(* handler (handle_page_fault) and process switch / fork (switch_process). *)
(* Every action is one whole call of the function it is named after.       *)
(***************************************************************************)
EXTENDS Integers, Sequences, FiniteSets, TLC

(***************************************************************************)
(* Bounds.  The program has 16 entries per directory, 128 frames and 256   *)
(* TLB slots; the model keeps the same layout with smaller numbers.        *)
(***************************************************************************)
NR_PTES_PER_PAGE == 2
NumFrames == 2
TlbSize == 2
MaxPid == 1
MaxVpn == 2
UintBits == 16

\* How many calls of alloc_page and free_page and how many forks a run
\* makes, per specification (Mem: page tables and processes; Unmap: one
\* process with the TLB; Sched: switch_process alone; All: every
\* operation).  insert_tlb is bounded by the TLB's size.
MemAllocs == 2
MemFrees == 1
MemForks == 1
UnmapAllocs == 1
UnmapFrees == 1
AllCalls == 1
SchedForks == 3

\* access modes of vm.h
ACCESS_READ == 1
ACCESS_WRITE == 2

\* unsigned int arithmetic (width scaled to UintBits)
UINT_MOD == 2 ^ UintBits
UINT_MAX == UINT_MOD - 1
UInc(x) == (x + 1) % UINT_MOD
UDec(x) == (x + UINT_MOD - 1) % UINT_MOD

Frames == 0 .. (NumFrames - 1)
Dirs == 0 .. (NR_PTES_PER_PAGE - 1)
Idxs == 0 .. (NR_PTES_PER_PAGE - 1)
Slots == 0 .. (TlbSize - 1)
Pids == 0 .. MaxPid
RWS == {ACCESS_READ, ACCESS_WRITE}

Min2(a, b) == IF a < b THEN a ELSE b

\* the vpns the driver passes
VPNS == 0 .. Min2(MaxVpn, NR_PTES_PER_PAGE * NR_PTES_PER_PAGE - 1)

\* vpn / NR_PTES_PER_PAGE and vpn % NR_PTES_PER_PAGE
DirIdx(vpn) == vpn \div NR_PTES_PER_PAGE
PteIdx(vpn) == vpn % NR_PTES_PER_PAGE

\* struct pte
ZeroPte == [valid |-> FALSE, rw |-> 0, pfn |-> 0, private |-> 0]
JunkPte == [valid |-> TRUE, rw |-> ACCESS_WRITE, pfn |-> 0, private |-> 1]

\* What a pte of malloc'ed, never written memory may hold: the block is
\* zero-filled, or it holds the bytes of an earlier use.
UninitPte == {ZeroPte, JunkPte}
\* What an unsigned int local that was never assigned may hold.
UninitUInt == {0, UINT_MAX}

\* A page-table directory is the tuple of its ptes (entry j at j + 1);
\* NULL is the empty tuple.
NULL == << >>
UninitDir == {[j \in 1 .. NR_PTES_PER_PAGE |-> p] : p \in UninitPte}
\* What an outer_ptes[] pointer of a malloc'ed struct process may hold:
\* NULL, or the address of memory with arbitrary content.
UninitDirPtr == {NULL} \cup UninitDir

EmptyPagetable == [d \in Dirs |-> NULL]

\* the pte of vpn in a page table, ZeroPte standing for "no directory"
PteOf(pt, vpn) ==
    IF pt[DirIdx(vpn)] = NULL THEN ZeroPte ELSE pt[DirIdx(vpn)][PteIdx(vpn) + 1]
Mapped(pt, vpn) == pt[DirIdx(vpn)] # NULL /\ pt[DirIdx(vpn)][PteIdx(vpn) + 1].valid

\* struct tlb_entry
ZeroTlb == [valid |-> FALSE, vpn |-> 0, rw |-> 0, pfn |-> 0]

VARIABLES
    current,     \* the running process: [id, pid, pagetable]
    processes,   \* the ready queue, head first
    ptbr,        \* id of the process whose page table ptbr points to
    tlb,         \* tlb[]
    tlbidx,      \* static int tlbidx of insert_tlb
    mapcounts,   \* mapcounts[]
    nextid,      \* number of struct process objects created so far
    fault,       \* "none", or "segv" once the program has crashed
    budget,      \* calls the run may still make: [alloc, free, insert, fork]
    freed,       \* vpns unmapped by free_page with no insert_tlb since
    tlbowner,    \* per tlb slot, the id of the process current at its insert_tlb
    last,        \* the last call: its name, arguments and results
    pre          \* the state the last call started from

vars == << current, processes, ptbr, tlb, tlbidx, mapcounts, nextid, fault, budget,
          freed, tlbowner, last, pre >>

Snapshot == [current |-> current, processes |-> processes, tlb |-> tlb,
             mapcounts |-> mapcounts, ptbr |-> ptbr]

\* The record of a call: op, the arguments (vpn, rw, pfn, pid), the results
\* (ret: the unsigned int returned; ok: the bool returned; pfn: for
\* lookup_tlb the caller's *pfn after the call), and two facts about the
\* state the call started from (mapped: vpn had a valid pte in the current
\* process; forked: switch_process took the fork path).
Call(op, vpn, rw, pfn, pid, ret, ok, forked) ==
    [op |-> op, vpn |-> vpn, rw |-> rw, pfn |-> pfn, pid |-> pid, ret |-> ret, ok |-> ok,
     mapped |-> Mapped(current.pagetable, vpn), forked |-> forked]

NoCall == [op |-> "init", vpn |-> 0, rw |-> 0, pfn |-> 0, pid |-> 0, ret |-> 0, ok |-> FALSE,
           mapped |-> FALSE, forked |-> FALSE]

\* the owner of a tlb slot that insert_tlb has not written
NoOwner == 0 - 1

InitState(b) ==
    /\ current = [id |-> 0, pid |-> 0, pagetable |-> EmptyPagetable]
    /\ processes = << >>
    /\ ptbr = 0
    /\ tlb = [i \in Slots |-> ZeroTlb]
    /\ tlbidx = 0
    /\ mapcounts = [f \in Frames |-> 0]
    /\ nextid = 1
    /\ fault = "none"
    /\ budget = b
    /\ freed = {}
    /\ tlbowner = [i \in Slots |-> NoOwner]
    /\ last = NoCall
    /\ pre = Snapshot

Budget(a, f, i, k) == [alloc |-> a, free |-> f, insert |-> i, fork |-> k]

Init == InitState(Budget(AllCalls, AllCalls, AllCalls, AllCalls))
InitUnmap == InitState(Budget(UnmapAllocs, UnmapFrees, TlbSize, 0))
InitMem == InitState(Budget(MemAllocs, MemFrees, 0, MemForks))
InitTlb == InitState(Budget(0, 0, TlbSize, 0))
InitSched == InitState(Budget(0, 0, 0, SchedForks))

(***************************************************************************)
(* lookup_tlb                                                              *)
(***************************************************************************)
TlbMatch(t, i, vpn, rw) == t[i].valid = TRUE /\ t[i].vpn = vpn /\ t[i].rw = rw

\* for(i = 0; i < 256; i++) if(valid && vpn == vpn && rw == rw) return true;
\* the slot the scan returns at, TlbSize when it runs to the end
RECURSIVE LookupScan(_, _, _, _)
LookupScan(t, vpn, rw, i) ==
    IF i >= TlbSize THEN TlbSize
    ELSE IF TlbMatch(t, i, vpn, rw) THEN i
    ELSE LookupScan(t, vpn, rw, i + 1)

\* the return value
lookup_tlb(t, vpn, rw) == LookupScan(t, vpn, rw, 0) < TlbSize

\* The caller's *pfn after the call: the body assigns its own parameter
\* (pfn = &tlb->pfn), so the caller's variable keeps the value it had.
lookup_tlb_pfn(t, vpn, rw, callerPfn) == callerPfn

LookupTlb(vpn, rw, callerPfn) ==
    /\ fault = "none"
    /\ last' = Call("lookup_tlb", vpn, rw, lookup_tlb_pfn(tlb, vpn, rw, callerPfn), 0,
                     0, lookup_tlb(tlb, vpn, rw), FALSE)
    /\ pre' = Snapshot
    /\ UNCHANGED << current, processes, ptbr, tlb, tlbidx, mapcounts, nextid, fault, budget, freed, tlbowner >>

(***************************************************************************)
(* insert_tlb                                                              *)
(***************************************************************************)
\* tlb[tlbidx++] = newtlb
insert_tlb(t, idx, vpn, rw, pfn) ==
    [t EXCEPT ![idx] = [valid |-> TRUE, vpn |-> vpn, rw |-> rw, pfn |-> pfn]]

InsertTlb(vpn, rw, pfn) ==
    /\ fault = "none"
    /\ tlbidx < TlbSize
    /\ budget.insert > 0
    /\ budget' = [budget EXCEPT !.insert = @ - 1]
    /\ tlb' = insert_tlb(tlb, tlbidx, vpn, rw, pfn)
    /\ tlbidx' = tlbidx + 1
    /\ last' = Call("insert_tlb", vpn, rw, pfn, 0, 0, FALSE, FALSE)
    /\ freed' = freed \ {vpn}
    /\ tlbowner' = [tlbowner EXCEPT ![tlbidx] = current.id]
    /\ pre' = Snapshot
    /\ UNCHANGED << current, processes, ptbr, mapcounts, nextid, fault >>

(***************************************************************************)
(* alloc_page                                                              *)
(***************************************************************************)
\* for(i = 0; i < 128; i++) if(mapcounts[i] == 0) ... break;
\* the frame the scan stops at, NumFrames when it runs to the end
RECURSIVE ScanFree(_, _)
ScanFree(mc, i) ==
    IF i >= NumFrames THEN NumFrames
    ELSE IF mc[i] = 0 THEN i
    ELSE ScanFree(mc, i + 1)

\* the scan run from the last frame downwards
FirstFreeDescending(mc) ==
    IF \A f \in Frames : mc[f] # 0 THEN NumFrames
    ELSE CHOOSE f \in Frames : mc[f] = 0 /\ \A g \in Frames : mc[g] = 0 => g <= f

FirstFree(mc) == ScanFree(mc, 0)

\* The values newpte.pfn may hold after the scan: the frame found, or,
\* when the scan finds none, whatever the unassigned local held.
AllocPfns(mc) == IF FirstFree(mc) < NumFrames THEN {FirstFree(mc)} ELSE UninitUInt

AllocMapcounts(mc) ==
    IF FirstFree(mc) < NumFrames THEN [mc EXCEPT ![FirstFree(mc)] = UInc(@)] ELSE mc

\* the directory of vpn, malloc'ed (content `fresh`) when it was NULL,
\* with newpte stored at the entry of vpn
AllocPagetable(pt, vpn, rw, pfn, fresh) ==
    LET d == DirIdx(vpn)
        dir == IF pt[d] = NULL THEN fresh ELSE pt[d]
        newpte == [valid |-> TRUE, rw |-> rw, pfn |-> pfn, private |-> 0]
    IN  [pt EXCEPT ![d] = [dir EXCEPT ![PteIdx(vpn) + 1] = newpte]]

AllocPage(vpn, rw) ==
    /\ fault = "none"
    /\ budget.alloc > 0
    /\ budget' = [budget EXCEPT !.alloc = @ - 1]
    /\ \E pfn \in AllocPfns(mapcounts), fresh \in UninitDir :
          /\ current' = [current EXCEPT
                 !.pagetable = AllocPagetable(current.pagetable, vpn, rw, pfn, fresh)]
          /\ last' = Call("alloc_page", vpn, rw, 0, 0, pfn, FALSE, FALSE)
    /\ mapcounts' = AllocMapcounts(mapcounts)
    /\ pre' = Snapshot
    /\ UNCHANGED << processes, ptbr, tlb, tlbidx, nextid, fault, freed, tlbowner >>

(***************************************************************************)
(* free_page                                                               *)
(***************************************************************************)
NoMatch == 0 - 1
NullDeref == 0 - 2

\* The two nested loops over (directoryidx, pteidx), k = directoryidx *
\* NR_PTES_PER_PAGE + pteidx: the position of the first pte whose private
\* field equals vpn, NullDeref when the scan reads through a NULL
\* directory first, NoMatch when it runs to the end.
RECURSIVE FreeScan(_, _, _)
FreeScan(pt, vpn, k) ==
    IF k >= NR_PTES_PER_PAGE * NR_PTES_PER_PAGE THEN NoMatch
    ELSE IF pt[DirIdx(k)] = NULL THEN NullDeref
    ELSE IF pt[DirIdx(k)][PteIdx(k) + 1].private = vpn THEN k
    ELSE FreeScan(pt, vpn, k + 1)

\* rw = 0, valid = false, pfn = 0 on the pte found
FreeClear(pt, k) ==
    [pt EXCEPT ![DirIdx(k)][PteIdx(k) + 1] =
        [@ EXCEPT !.rw = 0, !.valid = FALSE, !.pfn = 0]]

\* mapcounts[vpn]--
FreeMapcounts(mc, vpn) == IF vpn \in Frames THEN [mc EXCEPT ![vpn] = UDec(@)] ELSE mc

\* for(i = 0; i < 256; i++) if(tlb[i].vpn == vpn){ tlb[i].valid = false; break; }
RECURSIVE TlbScanVpn(_, _, _)
TlbScanVpn(t, vpn, i) ==
    IF i >= TlbSize THEN TlbSize
    ELSE IF t[i].vpn = vpn THEN i
    ELSE TlbScanVpn(t, vpn, i + 1)

FreeTlb(t, vpn) ==
    LET i == TlbScanVpn(t, vpn, 0)
    IN  IF i < TlbSize THEN [t EXCEPT ![i].valid = FALSE] ELSE t

\* A store to mapcounts[k] with k outside the array writes other memory:
\* the program goes on with its own state untouched, or it crashes.
OobOutcomes(ks) == IF ks \subseteq Frames THEN {"none"} ELSE {"none", "segv"}

FreePage(vpn) ==
    /\ fault = "none"
    /\ budget.free > 0
    /\ budget' = [budget EXCEPT !.free = @ - 1]
    /\ LET k == FreeScan(current.pagetable, vpn, 0) IN
         \/ /\ k = NullDeref
            /\ fault' = "segv"
            /\ UNCHANGED << current, mapcounts, tlb >>
         \/ /\ k = NoMatch
            /\ UNCHANGED << current, mapcounts, tlb, fault >>
         \/ /\ k >= 0
            /\ current' = [current EXCEPT !.pagetable = FreeClear(current.pagetable, k)]
            /\ mapcounts' = FreeMapcounts(mapcounts, vpn)
            /\ tlb' = FreeTlb(tlb, vpn)
            /\ fault' \in OobOutcomes({vpn})
    /\ last' = Call("free_page", vpn, 0, 0, 0, 0, FALSE, FALSE)
    /\ freed' = IF Mapped(current.pagetable, vpn) /\ fault' = "none"
                THEN freed \cup {vpn} ELSE freed
    /\ pre' = Snapshot
    /\ UNCHANGED << processes, ptbr, tlbidx, nextid, tlbowner >>

(***************************************************************************)
(* handle_page_fault                                                       *)
(***************************************************************************)
\* a handler that reports every fault as handled
handle_page_fault_handled(vpn, rw) == TRUE
\* the body is "return false;"
handle_page_fault(vpn, rw) == FALSE

HandlePageFault(vpn, rw) ==
    /\ fault = "none"
    /\ last' = Call("handle_page_fault", vpn, rw, 0, 0, 0, handle_page_fault(vpn, rw), FALSE)
    /\ pre' = Snapshot
    /\ UNCHANGED << current, processes, ptbr, tlb, tlbidx, mapcounts, nextid, fault, budget, freed, tlbowner >>

(***************************************************************************)
(* switch_process                                                          *)
(***************************************************************************)
\* list_for_each_entry(pos, &processes, list) if(pos->pid == pid): the
\* position of the first process with that pid, 0 when there is none
RECURSIVE FindPid(_, _, _)
FindPid(q, pid, i) ==
    IF i > Len(q) THEN 0
    ELSE IF q[i].pid = pid THEN i
    ELSE FindPid(q, pid, i + 1)

\* a switch that leaves the chosen process in the queue
ListDelKeeps(q, i) == q
\* list_del(&pos->list)
ListDel(q, i) == [j \in 1 .. (Len(q) - 1) |-> IF j < i THEN q[j] ELSE q[j + 1]]
\* list_add(&p->list, &processes): at the head
ListAdd(p, q) == << p >> \o q

Switch(pid) ==
    /\ fault = "none"
    /\ FindPid(processes, pid, 1) > 0
    /\ LET i == FindPid(processes, pid, 1) IN
          /\ processes' = ListAdd(current, ListDel(processes, i))
          /\ current' = processes[i]
    /\ last' = Call("switch_process", 0, 0, 0, pid, 0, FALSE, FALSE)
    /\ pre' = Snapshot
    /\ UNCHANGED << ptbr, tlb, tlbidx, mapcounts, nextid, fault, budget, freed, tlbowner >>

\* bitwise or of a truth value (0 or 1) with an access mode
BitOr01(b, m) == IF m % 2 = 1 THEN m ELSE m + b

\* if(pte.rw == ACCESS_WRITE | ACCESS_READ): == binds tighter than |
ForkDemotes(pte) == BitOr01(IF pte.rw = ACCESS_WRITE THEN 1 ELSE 0, ACCESS_READ) # 0

\* the parent's pte after the fork loop has visited it
\* a fork that leaves the parent's ptes as they are
ForkParentPteKept(pte) == pte
ForkParentPte(pte) ==
    IF pte.valid = TRUE /\ ForkDemotes(pte)
    THEN [pte EXCEPT !.rw = ACCESS_READ, !.private = 1]
    ELSE pte

\* The child's pte for a valid parent pte.  newpte.private is assigned
\* only in the demoting branch; `junk` is what it holds otherwise.
ForkChildPte(pte, junk) ==
    IF ForkDemotes(pte)
    THEN [valid |-> TRUE, rw |-> ACCESS_READ, pfn |-> pte.pfn, private |-> 1]
    ELSE [valid |-> TRUE, rw |-> pte.rw, pfn |-> pte.pfn, private |-> junk]

ForkParentTable(pt) ==
    [d \in Dirs |-> IF pt[d] = NULL THEN NULL
                    ELSE [j \in 1 .. NR_PTES_PER_PAGE |-> ForkParentPte(pt[d][j])]]

\* The child's table.  outer_ptes[d] is assigned only where the parent has
\* a directory (otherwise it keeps what malloc left: ptr); within a new
\* directory only the entries valid in the parent are stored (the others
\* keep what malloc left: fresh).
ForkChildTable(pt, ptr, fresh, junk) ==
    [d \in Dirs |-> IF pt[d] = NULL THEN ptr
                    ELSE [j \in 1 .. NR_PTES_PER_PAGE |->
                            IF pt[d][j].valid = TRUE
                            THEN ForkChildPte(pt[d][j], junk)
                            ELSE fresh[j]]]

\* the indices i * NR_PTES_PER_PAGE + j at which the loop does mapcounts[..]++
ForkIndices(pt) ==
    {k \in 0 .. (NR_PTES_PER_PAGE * NR_PTES_PER_PAGE - 1) :
        pt[DirIdx(k)] # NULL /\ pt[DirIdx(k)][PteIdx(k) + 1].valid = TRUE}

ForkMapcounts(mc, pt) ==
    [f \in Frames |-> IF f \in ForkIndices(pt) THEN UInc(mc[f]) ELSE mc[f]]

Fork(pid) ==
    /\ fault = "none"
    /\ FindPid(processes, pid, 1) = 0
    /\ budget.fork > 0
    /\ budget' = [budget EXCEPT !.fork = @ - 1]
    /\ \E ptr \in UninitDirPtr, fresh \in UninitDir, junk \in {0, 1} :
          /\ processes' = ListAdd([current EXCEPT
                                     !.pagetable = ForkParentTable(current.pagetable)],
                                  processes)
          /\ current' = [id |-> nextid, pid |-> pid,
                         pagetable |-> ForkChildTable(current.pagetable, ptr, fresh, junk)]
    /\ mapcounts' = ForkMapcounts(mapcounts, current.pagetable)
    /\ fault' \in OobOutcomes(ForkIndices(current.pagetable))
    /\ nextid' = nextid + 1
    /\ last' = Call("switch_process", 0, 0, 0, pid, 0, FALSE, TRUE)
    /\ pre' = Snapshot
    /\ UNCHANGED << ptbr, tlb, tlbidx, freed, tlbowner >>

Next ==
    \/ \E vpn \in VPNS, rw \in RWS, p \in Frames : LookupTlb(vpn, rw, p)
    \/ \E vpn \in VPNS, rw \in RWS, p \in Frames : InsertTlb(vpn, rw, p)
    \/ \E vpn \in VPNS, rw \in RWS : AllocPage(vpn, rw)
    \/ \E vpn \in VPNS : FreePage(vpn)
    \/ \E vpn \in VPNS, rw \in RWS : HandlePageFault(vpn, rw)
    \/ \E pid \in Pids : Switch(pid)
    \/ \E pid \in Pids : Fork(pid)

Spec == Init /\ [][Next]_vars

NextMem ==
    \/ \E vpn \in VPNS, rw \in RWS : AllocPage(vpn, rw)
    \/ \E vpn \in VPNS : FreePage(vpn)
    \/ \E vpn \in VPNS, rw \in RWS : HandlePageFault(vpn, rw)
    \/ \E pid \in Pids : Switch(pid)
    \/ \E pid \in Pids : Fork(pid)

SpecMem == InitMem /\ [][NextMem]_vars

NextUnmap ==
    \/ \E vpn \in VPNS, rw \in RWS, p \in Frames : LookupTlb(vpn, rw, p)
    \/ \E vpn \in VPNS, rw \in RWS, p \in Frames : InsertTlb(vpn, rw, p)
    \/ \E vpn \in VPNS, rw \in RWS : AllocPage(vpn, rw)
    \/ \E vpn \in VPNS : FreePage(vpn)

SpecUnmap == InitUnmap /\ [][NextUnmap]_vars

NextTlb ==
    \/ \E vpn \in VPNS, rw \in RWS, p \in Frames : LookupTlb(vpn, rw, p)
    \/ \E vpn \in VPNS, rw \in RWS, p \in Frames : InsertTlb(vpn, rw, p)

SpecTlb == InitTlb /\ [][NextTlb]_vars

NextSched ==
    \/ \E pid \in Pids : Switch(pid)
    \/ \E pid \in Pids : Fork(pid)

SpecSched == InitSched /\ [][NextSched]_vars

(***************************************************************************)
(* Vocabulary of the properties                                            *)
(***************************************************************************)
AllProcs == << current >> \o processes
AllVpns == 0 .. (NR_PTES_PER_PAGE * NR_PTES_PER_PAGE - 1)

\* the number of valid ptes, over the current process and the ready queue,
\* whose pfn is f
ValidRefs(f) ==
    Cardinality({pv \in (1 .. Len(AllProcs)) \X AllVpns :
                    /\ Mapped(AllProcs[pv[1]].pagetable, pv[2])
                    /\ PteOf(AllProcs[pv[1]].pagetable, pv[2]).pfn = f})

FreeBefore == {f \in Frames : pre.mapcounts[f] = 0}
SmallestFreeBefore == CHOOSE f \in FreeBefore : \A g \in FreeBefore : f <= g

\* the access mode of a pte includes ACCESS_WRITE
Writable(pte) == (pte.rw \div ACCESS_WRITE) % 2 = 1

ValidEntries(t, vpn) == {i \in Slots : t[i].valid = TRUE /\ t[i].vpn = vpn}

(***************************************************************************)
(* C1.  Refcount invariant: in every reachable state, for every frame f,   *)
(* mapcounts[f] is the number of valid ptes of the current process and of  *)
(* the processes in the ready queue whose pfn is f.                        *)
(* Fails: the fork does mapcounts[i * NR_PTES_PER_PAGE + j]++ (the vpn,    *)
(* not the pfn) and free_page does mapcounts[vpn]--.                       *)
(***************************************************************************)
C1_RefcountInvariant == \A f \in Frames : mapcounts[f] = ValidRefs(f)

(***************************************************************************)
(* C2.  Allocation determinism: when some frame has refcount 0 before      *)
(* alloc_page(vpn, rw), the call returns the smallest-numbered frame whose *)
(* refcount was 0, and the current process's pte of vpn is valid and maps  *)
(* that frame.                                                             *)
(***************************************************************************)
C2_SmallestFreeFrame ==
    (last.op = "alloc_page" /\ FreeBefore # {}) =>
        /\ last.ret = SmallestFreeBefore
        /\ Mapped(current.pagetable, last.vpn)
        /\ PteOf(current.pagetable, last.vpn).pfn = SmallestFreeBefore

\* an allocation that had to skip frame 0: frame 0 was in use, frame 1 free
C2_Witness ==
    /\ last.op = "alloc_page"
    /\ pre.mapcounts[0] # 0
    /\ pre.mapcounts[1] = 0
    /\ last.ret = 1
    /\ PteOf(current.pagetable, last.vpn).pfn = 1

(***************************************************************************)
(* C3.  Exhaustion: when no frame has refcount 0, alloc_page returns -1    *)
(* (as unsigned int: UINT_MAX) instead of a frame number.                  *)
(* Fails: the scan leaves newpte.pfn unassigned and the call returns it.   *)
(***************************************************************************)
C3_ExhaustedReturnsMinusOne ==
    (last.op = "alloc_page" /\ FreeBefore = {}) => last.ret = UINT_MAX

(***************************************************************************)
(* C4.  TLB lookup result: lookup_tlb(vpn, rw) returns true iff some entry *)
(* is valid and has that vpn and exactly that rw, and on a hit the pfn     *)
(* delivered to the caller is the pfn of a matching entry.                 *)
(* Fails in the second part: the caller's *pfn is never written.           *)
(***************************************************************************)
C4_LookupResult ==
    last.op = "lookup_tlb" =>
        /\ last.ok <=> \E i \in Slots : /\ pre.tlb[i].valid = TRUE
                                        /\ pre.tlb[i].vpn = last.vpn
                                        /\ pre.tlb[i].rw = last.rw
        /\ last.ok => \E i \in Slots : /\ pre.tlb[i].valid = TRUE
                                       /\ pre.tlb[i].vpn = last.vpn
                                       /\ pre.tlb[i].rw = last.rw
                                       /\ pre.tlb[i].pfn = last.pfn

(***************************************************************************)
(* C5.  TLB insert updates in place: the TLB never holds two valid entries *)
(* for one vpn, and after insert_tlb(vpn, rw, pfn) the valid entry of vpn  *)
(* carries that rw and that pfn.                                           *)
(* Fails: insert_tlb always writes the next slot.                          *)
(***************************************************************************)
C5_InsertInPlace ==
    /\ \A vpn \in VPNS : Cardinality(ValidEntries(tlb, vpn)) <= 1
    /\ last.op = "insert_tlb" =>
          /\ ValidEntries(tlb, last.vpn) # {}
          /\ \A i \in ValidEntries(tlb, last.vpn) :
                tlb[i].rw = last.rw /\ tlb[i].pfn = last.pfn

(***************************************************************************)
(* C6.  TLB coherence on unmap: after free_page(vpn) on a mapped vpn,      *)
(* every lookup_tlb(vpn, rw) made before the next insert_tlb for vpn       *)
(* reports a miss.                                                         *)
(* Fails: free_page invalidates only the first slot whose vpn field        *)
(* matches.                                                                *)
(***************************************************************************)
C6_NoHitAfterUnmap ==
    (last.op = "lookup_tlb" /\ last.vpn \in freed) => ~last.ok

(***************************************************************************)
(* C7.  TLB coherence on permission downgrade: when the fork in            *)
(* switch_process demotes a writable pte of vpn to read-only, no valid TLB *)
(* entry for vpn remains, so lookup_tlb(vpn, ACCESS_WRITE) misses.         *)
(* Fails: switch_process never touches the TLB.                            *)
(***************************************************************************)
DemotedByFork(vpn) ==
    /\ last.op = "switch_process"
    /\ last.forked
    /\ Mapped(pre.current.pagetable, vpn)
    /\ Writable(PteOf(pre.current.pagetable, vpn))
    /\ ~Writable(PteOf(processes[1].pagetable, vpn))

C7_DowngradeInvalidatesTlb ==
    \A vpn \in AllVpns :
        DemotedByFork(vpn) =>
            /\ ValidEntries(tlb, vpn) = {}
            /\ ~lookup_tlb(tlb, vpn, ACCESS_WRITE)

(***************************************************************************)
(* C8.  Unmap effect: free_page(vpn) on a vpn with a valid pte in the      *)
(* current process clears the pte at (vpn / NR_PTES_PER_PAGE,              *)
(* vpn % NR_PTES_PER_PAGE) to valid = false, rw = 0, pfn = 0, decrements   *)
(* by one the refcount of the frame that pte referenced, and changes no    *)
(* other pte and no other refcount.                                        *)
(* Fails: free_page looks for a pte whose private field equals vpn and     *)
(* decrements mapcounts[vpn].                                              *)
(***************************************************************************)
C8_UnmapEffect ==
    (last.op = "free_page" /\ last.mapped) =>
        LET old == PteOf(pre.current.pagetable, last.vpn)
            new == PteOf(current.pagetable, last.vpn)
        IN  /\ fault = "none"
            /\ new.valid = FALSE /\ new.rw = 0 /\ new.pfn = 0
            /\ \A v \in AllVpns \ {last.vpn} :
                  PteOf(current.pagetable, v) = PteOf(pre.current.pagetable, v)
            /\ processes = pre.processes
            /\ \A f \in Frames :
                  mapcounts[f] = IF f = old.pfn THEN UDec(pre.mapcounts[f])
                                 ELSE pre.mapcounts[f]

(***************************************************************************)
(* C9.  Missing mapping on release: free_page(vpn) for a vpn without a     *)
(* mapping in the current process (directory absent or pte invalid) does   *)
(* not crash and leaves page tables, refcounts and TLB unchanged.          *)
(* Fails: the scan reads through NULL directories, and a pte whose private *)
(* field equals vpn is "freed" whether or not it is the pte of vpn.        *)
(***************************************************************************)
C9_ReleaseUnmappedIsNoOp ==
    (last.op = "free_page" /\ ~last.mapped) =>
        /\ fault = "none"
        /\ current = pre.current
        /\ processes = pre.processes
        /\ mapcounts = pre.mapcounts
        /\ tlb = pre.tlb

(***************************************************************************)
(* C10.  First-touch fault: handle_page_fault(vpn, rw) on a vpn whose      *)
(* directory is absent or whose pte is invalid, with a frame free, returns *)
(* true and leaves the current process with a valid pte for vpn mapping a  *)
(* frame that was free before and has refcount 1 now.                      *)
(* Fails: handle_page_fault is "return false;".                            *)
(***************************************************************************)
C10_FirstTouchFault ==
    (last.op = "handle_page_fault" /\ ~last.mapped /\ FreeBefore # {}) =>
        /\ last.ok
        /\ Mapped(current.pagetable, last.vpn)
        /\ PteOf(current.pagetable, last.vpn).pfn \in FreeBefore
        /\ mapcounts[PteOf(current.pagetable, last.vpn).pfn] = 1

(***************************************************************************)
(* The write fault that C11, C12 and C13 are about: the last call was      *)
(* handle_page_fault(vpn, ACCESS_WRITE) on a vpn whose pte was valid and   *)
(* not writable.  OldPte is that pte before the call, NewPte after it.     *)
(***************************************************************************)
OldPte == PteOf(pre.current.pagetable, last.vpn)
NewPte == PteOf(current.pagetable, last.vpn)
WriteFaultOnReadOnly ==
    /\ last.op = "handle_page_fault"
    /\ last.rw = ACCESS_WRITE
    /\ last.mapped
    /\ ~Writable(OldPte)

(***************************************************************************)
(* C11.  Copy-on-write copy: a write fault on a valid, non-writable pte    *)
(* with the shared marker (private) set whose frame has refcount > 1       *)
(* returns true, leaves the pte valid and writable with the marker         *)
(* cleared, referencing a frame that was free before and differs from the  *)
(* old one, and decrements the refcount of the old frame by one.           *)
(* Fails: handle_page_fault is "return false;".                            *)
(***************************************************************************)
C11_CopyOnWriteCopy ==
    (/\ WriteFaultOnReadOnly
     /\ OldPte.private = 1
     /\ OldPte.pfn \in Frames
     /\ pre.mapcounts[OldPte.pfn] > 1) =>
        /\ last.ok
        /\ NewPte.valid
        /\ Writable(NewPte)
        /\ NewPte.private = 0
        /\ NewPte.pfn # OldPte.pfn
        /\ NewPte.pfn \in FreeBefore
        /\ mapcounts[OldPte.pfn] = pre.mapcounts[OldPte.pfn] - 1

(***************************************************************************)
(* C12.  Copy-on-write fast path: a write fault on a valid, non-writable   *)
(* pte with the shared marker set whose frame has refcount exactly 1       *)
(* returns true and makes the pte writable with the marker cleared,        *)
(* keeping its pfn and changing no refcount.                               *)
(* Fails: handle_page_fault is "return false;".                            *)
(***************************************************************************)
C12_CopyOnWriteFastPath ==
    (/\ WriteFaultOnReadOnly
     /\ OldPte.private = 1
     /\ OldPte.pfn \in Frames
     /\ pre.mapcounts[OldPte.pfn] = 1) =>
        /\ last.ok
        /\ NewPte.valid
        /\ Writable(NewPte)
        /\ NewPte.private = 0
        /\ NewPte.pfn = OldPte.pfn
        /\ mapcounts = pre.mapcounts

(***************************************************************************)
(* C13.  Illegal access: a write fault on a valid, non-writable pte whose  *)
(* shared marker is not set returns false and leaves every page table,     *)
(* every refcount and the TLB as they were.                                *)
(***************************************************************************)
C13_IllegalAccess ==
    (WriteFaultOnReadOnly /\ OldPte.private # 1) =>
        /\ ~last.ok
        /\ current = pre.current
        /\ processes = pre.processes
        /\ mapcounts = pre.mapcounts
        /\ tlb = pre.tlb

\* a write fault on a page mapped read-only by alloc_page was refused while
\* the TLB held an entry
C13_Witness ==
    /\ WriteFaultOnReadOnly
    /\ OldPte.private = 0
    /\ OldPte.rw = ACCESS_READ
    /\ ~last.ok
    /\ \E i \in Slots : tlb[i].valid

(***************************************************************************)
(* C14.  ptbr follows current: after every switch_process, on the switch   *)
(* path and on the fork path, ptbr points to the page table of the process *)
(* that is now current.                                                    *)
(* Fails: switch_process never assigns ptbr.                               *)
(***************************************************************************)
C14_PtbrFollowsCurrent ==
    last.op = "switch_process" => ptbr = current.id

(***************************************************************************)
(* The fork that C15, C16 and C17 are about: the last call was a           *)
(* switch_process that forked.  The parent is the process that was current *)
(* and is now at the head of the ready queue; the child is current.        *)
(***************************************************************************)
Forked == last.op = "switch_process" /\ last.forked
ParentBefore(vpn) == PteOf(pre.current.pagetable, vpn)
ParentAfter(vpn) == PteOf(processes[1].pagetable, vpn)
Child(vpn) == PteOf(current.pagetable, vpn)
ParentMapped(vpn) == Mapped(pre.current.pagetable, vpn)
\* the number of valid ptes of the parent whose pfn is f
ParentRefs(f) ==
    Cardinality({vpn \in AllVpns : ParentMapped(vpn) /\ ParentBefore(vpn).pfn = f})

(***************************************************************************)
(* C15.  Fork copy-on-write setup: after a fork, for every vpn whose pte   *)
(* in the parent was valid and writable, the parent's pte and the child's  *)
(* pte are both valid and read-only, carry the shared marker, and          *)
(* reference the pfn the parent's pte had before.                          *)
(***************************************************************************)
C15_ForkSharesWritable ==
    Forked =>
        \A vpn \in AllVpns :
            (ParentMapped(vpn) /\ Writable(ParentBefore(vpn))) =>
                /\ ParentAfter(vpn).valid
                /\ ParentAfter(vpn).rw = ACCESS_READ
                /\ ParentAfter(vpn).private = 1
                /\ ParentAfter(vpn).pfn = ParentBefore(vpn).pfn
                /\ Child(vpn).valid
                /\ Child(vpn).rw = ACCESS_READ
                /\ Child(vpn).private = 1
                /\ Child(vpn).pfn = ParentBefore(vpn).pfn

\* a fork returned whose parent had a page mapped writable by alloc_page
C15_Witness ==
    /\ Forked
    /\ fault = "none"
    /\ \E vpn \in AllVpns :
          /\ ParentMapped(vpn)
          /\ ParentBefore(vpn).rw = ACCESS_WRITE
          /\ ParentBefore(vpn).private = 0
          /\ Child(vpn).rw = ACCESS_READ

(***************************************************************************)
(* C16.  Fork replicates read-only pages as they are: after a fork, for    *)
(* every vpn whose pte in the parent was valid and not writable, the       *)
(* parent's pte is unchanged and the child's pte is an exact copy of it    *)
(* (same rw, pfn and shared marker), so a read-only page that was not      *)
(* shared before the fork is not marked shared by it.                      *)
(* Fails: "rw == ACCESS_WRITE | ACCESS_READ" is true of every pte, so      *)
(* every valid pte is marked private = 1 in parent and child.              *)
(***************************************************************************)
C16_ForkCopiesReadOnly ==
    Forked =>
        \A vpn \in AllVpns :
            (ParentMapped(vpn) /\ ~Writable(ParentBefore(vpn))) =>
                /\ ParentAfter(vpn) = ParentBefore(vpn)
                /\ Child(vpn) = ParentBefore(vpn)

(***************************************************************************)
(* C17.  Fork refcount update: a fork increments mapcounts[pte.pfn] by one *)
(* for every valid pte of the parent and leaves the refcount of every      *)
(* frame that no valid pte of the parent references unchanged.             *)
(* Fails: the increment is mapcounts[i * NR_PTES_PER_PAGE + j]++, the vpn  *)
(* of the pte, not its pfn.                                                *)
(***************************************************************************)
C17_ForkRefcounts ==
    Forked =>
        \A f \in Frames : mapcounts[f] = (pre.mapcounts[f] + ParentRefs(f)) % UINT_MOD

(***************************************************************************)
(* C18.  Single current process: after any sequence of switch_process      *)
(* calls there is one current process, it is not in the ready queue, every *)
(* other process created so far is in the ready queue exactly once, and no *)
(* process is lost.  Processes are told apart by id, the order of their    *)
(* creation.                                                               *)
(***************************************************************************)
QueueIds == {processes[i].id : i \in 1 .. Len(processes)}
C18_SingleCurrent ==
    /\ current.id \notin QueueIds
    /\ \A i, j \in 1 .. Len(processes) : processes[i].id = processes[j].id => i = j
    /\ QueueIds \cup {current.id} = 0 .. (nextid - 1)

\* a switch took a process from behind the head of a queue of two or more
\* and put the previous current process at the head
C18_Witness ==
    /\ last.op = "switch_process"
    /\ ~last.forked
    /\ Len(processes) >= 2
    /\ FindPid(pre.processes, last.pid, 1) > 1
    /\ processes[1].id = pre.current.id

(***************************************************************************)
(* C20.  Pid uniqueness: after any sequence of switch_process(pid) calls,  *)
(* the pid of the running process included among the arguments, no two     *)
(* processes (the current one and those in the ready queue) have the same  *)
(* pid.                                                                    *)
(* Fails: the search for pid covers the ready queue only, so               *)
(* switch_process(current->pid) forks a second process with that pid.      *)
(***************************************************************************)
C20_PidUnique ==
    \A i, j \in 1 .. Len(AllProcs) : AllProcs[i].pid = AllProcs[j].pid => i = j

(***************************************************************************)
(* C19.  No cross-process stale TLB hit: whenever lookup_tlb(vpn, rw)      *)
(* reports a hit, the current process has a valid pte for vpn that permits *)
(* rw and has the pfn of the hit entry; an entry inserted while another    *)
(* process was current never satisfies a lookup for the current process.   *)
(* The formula is the last clause, for the entry the scan of lookup_tlb    *)
(* returns at: it was inserted while the process now current was current.  *)
(* Fails: tlb entries carry no process identity and switch_process         *)
(* neither flushes nor invalidates the tlb.                                *)
(***************************************************************************)
HitSlot == LookupScan(pre.tlb, last.vpn, last.rw, 0)
C19_NoCrossProcessHit ==
    (last.op = "lookup_tlb" /\ last.ok) => tlbowner[HitSlot] = current.id

====
